---- MODULE Spec2Model ----
(***************************************************************************)
(* AI Recipe Studio (src/app.py): the recipe store kept in                 *)
(* data/saved_recipes.json, the nutrition estimator, the shopping-list     *)
(* extractor and the Streamlit session, as state machines.                 *)
(***************************************************************************)
EXTENDS Integers, Sequences, FiniteSets, TLC

(***************************************************************************)
(* Bounds of the model.                                                    *)
(***************************************************************************)
\* longest stored recipe list the store actions build
MaxLen == 3
\* tokens one write() system call of a save transfers
ChunkLen == 4
\* longest ingredient list estimate_nutrition is called with
MaxIngredients == 2
\* largest servings estimate_nutrition is called with
MaxServings == 4
\* most saved recipes the Shopping List page is shown with
MaxShopRecipes == 2
\* longest stored recipe list a session's Save Recipe builds
MaxSaved == 2

(***************************************************************************)
(* Recipe records and the JSON text of the document.  A string is the      *)
(* sequence of its characters.                                             *)
(***************************************************************************)
\* the generated texts a record can carry (<<>> is an empty generation)
Texts == {<<>>, <<"D">>, <<"P", "a">>}

\* a recipe record (the dict of src/app.py:217-224, reduced to its text)
RecipeObjs == [text : Texts]

\* the document does not exist (RECIPES_FILE.exists() is False)
NoFile == <<[k |-> "absent", v |-> ""]>>

Punct(c) == [k |-> "punct", v |-> c]
Chr(c) == [k |-> "chr", v |-> c]
\* a byte of the hole a write past the end of the file leaves
Nul == [k |-> "nul", v |-> ""]

\* json.dumps of a string: its characters between quotes
DumpsStr(t) == <<Punct("q")>> \o [j \in 1 .. Len(t) |-> Chr(t[j])] \o <<Punct("q")>>

\* json.dumps of one record
DumpsObj(r) == <<Punct("{")>> \o DumpsStr(r.text) \o <<Punct("}")>>

RECURSIVE DumpsItems(_)
DumpsItems(recipes) ==
    IF recipes = <<>> THEN <<>>
    ELSE DumpsObj(Head(recipes)) \o DumpsItems(Tail(recipes))

\* json.dumps(recipes, ensure_ascii=False, indent=2): the text written
Dumps(recipes) == <<Punct("[")>> \o DumpsItems(recipes) \o <<Punct("]")>>

\* the parser's result: a value, or JSONDecodeError
Parsed(v) == [ok |-> TRUE, val |-> v]
ParseError == [ok |-> FALSE, val |-> <<>>]

\* the first position from i on that holds no character of a string
RECURSIVE StrEnd(_, _)
StrEnd(toks, i) ==
    IF i > Len(toks) \/ toks[i].k # "chr" THEN i ELSE StrEnd(toks, i + 1)

\* json.loads, after the opening bracket: objects up to the closing bracket,
\* which must end the text
RECURSIVE LoadsItems(_, _, _)
LoadsItems(toks, i, acc) ==
    IF i > Len(toks) THEN ParseError
    ELSE IF toks[i] = Punct("]")
    THEN (IF i = Len(toks) THEN Parsed(acc) ELSE ParseError)
    ELSE IF toks[i] = Punct("{") /\ i + 1 <= Len(toks) /\ toks[i + 1] = Punct("q")
    THEN LET e == StrEnd(toks, i + 2) IN
         IF e + 1 <= Len(toks) /\ toks[e] = Punct("q") /\ toks[e + 1] = Punct("}")
         THEN LoadsItems(toks, e + 2,
                  Append(acc, [text |-> [j \in 1 .. e - (i + 2) |-> toks[i + 1 + j].v]]))
         ELSE ParseError
    ELSE ParseError

\* json.loads of the document's text
Loads(toks) ==
    IF Len(toks) >= 1 /\ toks[1] = Punct("[")
    THEN LoadsItems(toks, 2, <<>>)
    ELSE ParseError

\* load_saved_recipes(): the list read from the document f
load_saved_recipes(f) ==
    IF f = NoFile THEN Parsed(<<>>) ELSE Loads(f)

\* (recipes.insert(0, recipe_obj), had the record been appended)
InsertEnd(recipes, recipe_obj) == recipes \o <<recipe_obj>>
\* recipes.insert(0, recipe_obj)
Insert0(recipes, recipe_obj) == <<recipe_obj>> \o recipes

\* (recipes.pop(index), had pop() been called without the index)
PopLast(recipes, index) == SubSeq(recipes, 1, Len(recipes) - 1)
\* recipes.pop(index), a negative index counting from the end
PopAt(recipes, index) ==
    LET i == IF index < 0 THEN index + Len(recipes) + 1 ELSE index + 1 IN
    [j \in 1 .. Len(recipes) - 1 |-> IF j < i THEN recipes[j] ELSE recipes[j + 1]]

\* (the guard of delete_recipe, had the guard been index < len(recipes) alone)
InRangeNoLower(index, recipes) == index < Len(recipes) /\ -index <= Len(recipes)
\* the guard of delete_recipe: 0 <= index < len(recipes)
InRange(index, recipes) == 0 <= index /\ index < Len(recipes)

(***************************************************************************)
(* State.                                                                  *)
(***************************************************************************)
VARIABLES
    file,   \* the text of data/saved_recipes.json, or NoFile
    last,   \* the store call that ran last: its name, argument, document before, outcome
    prev,   \* the store call before it
    sess,   \* per session running a store call step by step: where it is, what it holds
    versions, \* the lists stored at the start or handed to save_all_recipes since
    closed, \* the sessions whose save has ended, in the order the saves ended
    overlap, \* whether a save began while another one was under way
    ingredients_list, \* the list estimate_nutrition is called with
    nutLast, \* the last call of estimate_nutrition: servings, outcome
    nutPrev, \* the call before it
    shopRecipes, \* the saved recipes the Shopping List page loaded
    selected, \* the titles selected in its multiselect
    items,  \* the mapping the build made: phrase to count
    shopState, \* "options", "built", or "raised"
    api_key, \* st.session_state.api_key
    last_generated, \* st.session_state.last_generated
    meal_plan, \* st.session_state.meal_plan, when there is one
    act     \* the last user action: what was shown, whether the service was called

storeVars == <<file, last, prev>>
raceVars == <<sess, versions, closed, overlap>>
nutritionVars == <<ingredients_list, nutLast, nutPrev>>
shopVars == <<shopRecipes, selected, items, shopState>>
sessionVars == <<api_key, last_generated, meal_plan, act>>
vars == <<file, last, prev, sess, versions, closed, overlap,
          ingredients_list, nutLast, nutPrev, shopRecipes, selected, items, shopState,
          api_key, last_generated, meal_plan, act>>
\* what the one-caller-at-a-time store actions leave alone
notStore == <<raceVars, nutritionVars, shopVars, sessionVars>>
\* what the step-by-step store actions leave alone
notRace == <<last, prev, nutritionVars, shopVars, sessionVars>>
\* what the nutrition estimator leaves alone
notNutrition == <<file, last, prev, raceVars, shopVars, sessionVars>>
\* what the Shopping List page leaves alone
notShop == <<file, last, prev, raceVars, nutritionVars, sessionVars>>
\* what the session's actions leave alone
notSession == <<last, prev, raceVars, nutritionVars, shopVars>>

\* no store call has run yet
NoCall == [op |-> "none", arg |-> 0, rec |-> [text |-> <<>>], before |-> NoFile,
           wrote |-> FALSE, raised |-> FALSE]

Call(op, arg, rec, before, wrote, raised) ==
    [op |-> op, arg |-> arg, rec |-> rec, before |-> before,
     wrote |-> wrote, raised |-> raised]

\* the totals before the first ingredient (line 84)
ZeroTotals == [cal |-> 0, protein |-> 0, fat |-> 0, carb |-> 0]

\* estimate_nutrition has not been called
NoEstimate == [servings |-> 0, raised |-> FALSE, called |-> FALSE, out |-> ZeroTotals]

\* the estimator at rest
NutritionIdle ==
    /\ ingredients_list = <<>>
    /\ nutLast = NoEstimate
    /\ nutPrev = NoEstimate

\* the Shopping List page not in use
ShopIdle ==
    /\ shopRecipes = <<>>
    /\ selected = {}
    /\ items = <<>>
    /\ shopState = "options"

\* st.session_state.last_generated = None (line 163)
NoneGenerated == [some |-> FALSE, text |-> <<>>]

\* "meal_plan" not in st.session_state
NoPlan == [some |-> FALSE, days |-> <<>>]

\* no snapshot kept
NoSnapshot == [api_key |-> <<>>, last_generated |-> NoneGenerated,
               meal_plan |-> NoPlan, file |-> NoFile]

\* no user action yet
NoAct == [kind |-> "none", error |-> "none", called |-> FALSE, config |-> "none",
          raised |-> FALSE, before |-> NoSnapshot]

\* no session in use
SessionIdle ==
    /\ api_key = <<>>
    /\ last_generated = NoneGenerated
    /\ meal_plan = NoPlan
    /\ act = NoAct

\* the indexes delete_recipe is called with, in range and out of it
Indexes == -2 .. MaxLen + 1

(***************************************************************************)
(* The store's operations, one caller at a time (src/app.py:23-40).        *)
(***************************************************************************)
\* save_all_recipes(recipes): write_text replaces the whole text
save_all_recipes(recipes) == Dumps(recipes)

\* add_recipe(recipe_obj): load, insert at 0, save
add_recipe(recipe_obj) ==
    LET loaded == load_saved_recipes(file) IN
    /\ Len(loaded.val) < MaxLen
    /\ IF loaded.ok
       THEN /\ file' = save_all_recipes(Insert0(loaded.val, recipe_obj))
            /\ last' = Call("add", 0, recipe_obj, file, TRUE, FALSE)
       ELSE /\ file' = file
            /\ last' = Call("add", 0, recipe_obj, file, FALSE, TRUE)
    /\ prev' = last
    /\ UNCHANGED notStore

\* delete_recipe(index): load, and when 0 <= index < len, pop and save
delete_recipe(index) ==
    LET loaded == load_saved_recipes(file) IN
    /\ IF ~loaded.ok
       THEN /\ file' = file
            /\ last' = Call("delete", index, [text |-> <<>>], file, FALSE, TRUE)
       ELSE IF InRange(index, loaded.val)
       THEN /\ file' = save_all_recipes(PopAt(loaded.val, index))
            /\ last' = Call("delete", index, [text |-> <<>>], file, TRUE, FALSE)
       ELSE /\ file' = file
            /\ last' = Call("delete", index, [text |-> <<>>], file, FALSE, FALSE)
    /\ prev' = last
    /\ UNCHANGED notStore

\* Settings, "Clear saved recipes": RECIPES_FILE.unlink() when the file exists
clear_saved ==
    /\ file' = NoFile
    /\ last' = Call("clear", 0, [text |-> <<>>], file, FALSE, FALSE)
    /\ prev' = last
    /\ UNCHANGED notStore

StoreInit ==
    /\ file = NoFile
    /\ last = NoCall
    /\ prev = NoCall

StoreNext ==
    \/ \E r \in RecipeObjs : add_recipe(r)
    \/ \E i \in Indexes : delete_recipe(i)
    \/ clear_saved

(***************************************************************************)
(* The store's operations step by step, two sessions on one document.      *)
(* Streamlit runs each browser session's script in its own thread; the     *)
(* steps are the file system calls of read_text and write_text.            *)
(***************************************************************************)
Sessions == {1, 2}

IdleSession == [pc |-> "idle", op |-> "none", rec |-> [text |-> <<>>], idx |-> 0,
                loaded |-> Parsed(<<>>), text |-> <<>>, pos |-> 0]

RaceIdle ==
    /\ sess = [s \in Sessions |-> IdleSession]
    /\ versions = {}
    /\ closed = <<>>
    /\ overlap = FALSE

Min(a, b) == IF a < b THEN a ELSE b
Max(a, b) == IF a < b THEN b ELSE a

\* write(chunk) at offset pos of the text f: bytes past the end extend it,
\* a gap before pos is a hole
WriteAt(f, pos, chunk) ==
    [j \in 1 .. Max(Len(f), pos + Len(chunk)) |->
        IF pos < j /\ j <= pos + Len(chunk) THEN chunk[j - pos]
        ELSE IF j <= Len(f) THEN f[j]
        ELSE Nul]

\* the lists of at most n records
ListsUpTo(n) == UNION {[1 .. m -> RecipeObjs] : m \in 0 .. n}

\* add_recipe, line 32: recipes = load_saved_recipes()
RaceAddLoad(s, r) ==
    LET loaded == load_saved_recipes(file) IN
    /\ sess[s].pc = "idle"
    /\ Len(loaded.val) < MaxLen
    /\ sess' = [sess EXCEPT ![s] = [@ EXCEPT !.pc = IF loaded.ok THEN "loaded" ELSE "raised",
                                              !.op = "add", !.rec = r, !.loaded = loaded]]
    /\ UNCHANGED <<file, versions, closed, overlap>>
    /\ UNCHANGED notRace

\* delete_recipe, lines 37-38: load, and the guard on the index
RaceDeleteLoad(s, i) ==
    LET loaded == load_saved_recipes(file) IN
    /\ sess[s].pc = "idle"
    /\ sess' = [sess EXCEPT ![s] = [@ EXCEPT !.pc = IF ~loaded.ok THEN "raised"
                                                    ELSE IF InRange(i, loaded.val) THEN "loaded"
                                                    ELSE "done",
                                              !.op = "delete", !.idx = i, !.loaded = loaded]]
    /\ UNCHANGED <<file, versions, closed, overlap>>
    /\ UNCHANGED notRace

\* a page's recipes = load_saved_recipes() (lines 250, 336)
RaceLoad(s) ==
    LET loaded == load_saved_recipes(file) IN
    /\ sess[s].pc = "idle"
    /\ sess' = [sess EXCEPT ![s] = [@ EXCEPT !.pc = IF loaded.ok THEN "done" ELSE "raised",
                                              !.op = "load", !.loaded = loaded]]
    /\ UNCHANGED <<file, versions, closed, overlap>>
    /\ UNCHANGED notRace

\* the list the session hands to save_all_recipes
Modified(c) ==
    IF c.op = "add" THEN Insert0(c.loaded.val, c.rec) ELSE PopAt(c.loaded.val, c.idx)

\* save_all_recipes, write_text: open(mode="w") truncates the file
\* (the same, had the file been opened without truncation)
RaceOpenKeep(s) ==
    /\ sess[s].pc = "loaded"
    /\ file' = (IF file = NoFile THEN <<>> ELSE file)
    /\ sess' = [sess EXCEPT ![s] = [@ EXCEPT !.pc = "writing",
                                              !.text = Dumps(Modified(sess[s])), !.pos = 0]]
    /\ versions' = versions \cup {Modified(sess[s])}
    /\ overlap' = (overlap \/ \E t \in Sessions \ {s} : sess[t].pc = "writing")
    /\ UNCHANGED closed
    /\ UNCHANGED notRace

\* open(mode="w") of write_text
RaceOpen(s) ==
    /\ sess[s].pc = "loaded"
    /\ file' = <<>>
    /\ sess' = [sess EXCEPT ![s] = [@ EXCEPT !.pc = "writing",
                                              !.text = Dumps(Modified(sess[s])), !.pos = 0]]
    /\ versions' = versions \cup {Modified(sess[s])}
    /\ overlap' = (overlap \/ \E t \in Sessions \ {s} : sess[t].pc = "writing")
    /\ UNCHANGED closed
    /\ UNCHANGED notRace

\* write_text: one write() of the next ChunkLen tokens at the session's own
\* offset; the last one is followed by close()
RaceWrite(s) ==
    LET c == sess[s]
        end == Min(c.pos + ChunkLen, Len(c.text)) IN
    /\ c.pc = "writing"
    /\ file' = WriteAt(file, c.pos, SubSeq(c.text, c.pos + 1, end))
    /\ sess' = [sess EXCEPT ![s] = [@ EXCEPT !.pos = end,
                                              !.pc = IF end = Len(c.text) THEN "done" ELSE "writing"]]
    /\ closed' = IF end = Len(c.text) THEN Append(closed, s) ELSE closed
    /\ UNCHANGED <<versions, overlap>>
    /\ UNCHANGED notRace

\* the save is interrupted (the process is killed, the disk is full)
RaceInterrupt(s) ==
    /\ sess[s].pc = "writing"
    /\ sess' = [sess EXCEPT ![s] = [@ EXCEPT !.pc = "interrupted"]]
    /\ UNCHANGED <<file, versions, closed, overlap>>
    /\ UNCHANGED notRace

RaceInit ==
    /\ \E S \in ListsUpTo(MaxLen - 2) :
          /\ file \in {Dumps(S)} \cup (IF S = <<>> THEN {NoFile} ELSE {})
          /\ versions = {S}
    /\ sess = [s \in Sessions |-> IdleSession]
    /\ closed = <<>>
    /\ overlap = FALSE
    /\ last = NoCall
    /\ prev = NoCall
    /\ NutritionIdle
    /\ ShopIdle
    /\ SessionIdle

RaceNext ==
    \/ \E s \in Sessions, r \in RecipeObjs : RaceAddLoad(s, r)
    \/ \E s \in Sessions, i \in 0 .. MaxLen - 1 : RaceDeleteLoad(s, i)
    \/ \E s \in Sessions : RaceLoad(s)
    \/ \E s \in Sessions : RaceOpen(s)
    \/ \E s \in Sessions : RaceWrite(s)
    \/ \E s \in Sessions : RaceInterrupt(s)

SpecRace == RaceInit /\ [][RaceNext]_vars

(***************************************************************************)
(* The nutrition estimator (src/app.py:62-101).  Quantities are in tenths, *)
(* the unit of the table's one decimal and of round(v, 1).                  *)
(***************************************************************************)
\* NUTRITION_DB, per key in tenths
NUTRITION_DB == {
    [key |-> <<"c", "h", "i", "c", "k", "e", "n">>,
     val |-> [cal |-> 1650, protein |-> 310, fat |-> 36, carb |-> 0]],
    [key |-> <<"r", "i", "c", "e">>,
     val |-> [cal |-> 1300, protein |-> 24, fat |-> 2, carb |-> 280]],
    [key |-> <<"p", "a", "s", "t", "a">>,
     val |-> [cal |-> 1310, protein |-> 50, fat |-> 11, carb |-> 250]],
    [key |-> <<"t", "o", "m", "a", "t", "o">>,
     val |-> [cal |-> 180, protein |-> 9, fat |-> 2, carb |-> 39]],
    [key |-> <<"o", "n", "i", "o", "n">>,
     val |-> [cal |-> 400, protein |-> 11, fat |-> 1, carb |-> 93]],
    [key |-> <<"p", "o", "t", "a", "t", "o">>,
     val |-> [cal |-> 770, protein |-> 20, fat |-> 1, carb |-> 170]],
    [key |-> <<"c", "h", "e", "e", "s", "e">>,
     val |-> [cal |-> 4020, protein |-> 250, fat |-> 330, carb |-> 13]],
    [key |-> <<"e", "g", "g">>,
     val |-> [cal |-> 1550, protein |-> 130, fat |-> 110, carb |-> 11]],
    [key |-> <<"m", "i", "l", "k">>,
     val |-> [cal |-> 420, protein |-> 34, fat |-> 10, carb |-> 50]],
    [key |-> <<"b", "u", "t", "t", "e", "r">>,
     val |-> [cal |-> 7170, protein |-> 9, fat |-> 810, carb |-> 1]],
    [key |-> <<"b", "r", "o", "c", "c", "o", "l", "i">>,
     val |-> [cal |-> 340, protein |-> 28, fat |-> 4, carb |-> 70]],
    [key |-> <<"q", "u", "i", "n", "o", "a">>,
     val |-> [cal |-> 1200, protein |-> 44, fat |-> 19, carb |-> 210]],
    [key |-> <<"b", "e", "a", "n", "s">>,
     val |-> [cal |-> 3470, protein |-> 210, fat |-> 12, carb |-> 630]],
    [key |-> <<"a", "v", "o", "c", "a", "d", "o">>,
     val |-> [cal |-> 1600, protein |-> 20, fat |-> 150, carb |-> 90]]}

\* the contribution of an ingredient that is not in the table
DefaultEntry == [cal |-> 200, protein |-> 5, fat |-> 1, carb |-> 10]

Fields == {"cal", "protein", "fat", "carb"}

UpperCase == <<"A", "B", "C", "D", "E", "F", "G", "H", "I", "J", "K", "L", "M", "N", "O", "P", "Q", "R", "S", "T", "U", "V", "W", "X", "Y", "Z">>
LowerCase == <<"a", "b", "c", "d", "e", "f", "g", "h", "i", "j", "k", "l", "m", "n", "o", "p", "q", "r", "s", "t", "u", "v", "w", "x", "y", "z">>

\* str.lower(), one character
LowerChar(c) ==
    IF \E i \in 1 .. Len(UpperCase) : UpperCase[i] = c
    THEN LowerCase[CHOOSE i \in 1 .. Len(UpperCase) : UpperCase[i] = c]
    ELSE c

\* str.lower()
Lower(str) == [j \in 1 .. Len(str) |-> LowerChar(str[j])]

\* the characters str.strip() and str.split() take for white space
IsSpace(c) == c \in {" ", "\t", "\n"}

RECURSIVE LStrip(_)
LStrip(str) ==
    IF str # <<>> /\ IsSpace(Head(str)) THEN LStrip(Tail(str)) ELSE str

RECURSIVE RStrip(_)
RStrip(str) ==
    IF str # <<>> /\ IsSpace(str[Len(str)])
    THEN RStrip(SubSeq(str, 1, Len(str) - 1))
    ELSE str

\* str.strip()
Strip(str) == RStrip(LStrip(str))

\* the length of the run of characters that are not white space, from i on
RECURSIVE WordEnd(_, _)
WordEnd(str, i) ==
    IF i > Len(str) \/ IsSpace(str[i]) THEN i ELSE WordEnd(str, i + 1)

\* str.split(): the words between runs of white space
RECURSIVE Split(_)
Split(str) ==
    LET rest == LStrip(str) IN
    IF rest = <<>> THEN <<>>
    ELSE LET e == WordEnd(rest, 1) IN
         <<SubSeq(rest, 1, e - 1)>> \o Split(SubSeq(rest, e, Len(rest)))

\* ing.strip().lower().split(): [0] of it raises IndexError when it is empty
KeyWords(ing) == Split(Lower(Strip(ing)))

\* the table's entry for the key, or the default (lines 87-98)
EntryOf(key) ==
    IF \E e \in NUTRITION_DB : e.key = key
    THEN (CHOOSE e \in NUTRITION_DB : e.key = key).val
    ELSE DefaultEntry

\* the loop of lines 85-98 over ingredients whose key exists
RECURSIVE Totals(_)
Totals(list) ==
    IF list = <<>> THEN ZeroTotals
    ELSE LET d == EntryOf(KeyWords(Head(list))[1])
             t == Totals(Tail(list)) IN
         [f \in Fields |-> d[f] + t[f]]

\* max(1, servings)
Divide(servings) == IF servings < 1 THEN 1 ELSE servings

\* round(v / d, 1) in tenths: the nearest; at a tie the float's binary value
\* decides, so either neighbour
Rounded(v, d) ==
    LET q == v \div d
        r == v % d IN
    IF 2 * r < d THEN {q}
    ELSE IF 2 * r > d THEN {q + 1}
    ELSE {q, q + 1}

\* estimate_nutrition(ingredients_list, servings)
estimate_nutrition(servings) ==
    /\ IF \E i \in 1 .. Len(ingredients_list) : KeyWords(ingredients_list[i]) = <<>>
       THEN nutLast' = [servings |-> servings, raised |-> TRUE, called |-> TRUE,
                        out |-> ZeroTotals]
       ELSE LET total == Totals(ingredients_list)
                d == Divide(servings) IN
            \E out \in [cal : Rounded(total.cal, d), protein : Rounded(total.protein, d),
                        fat : Rounded(total.fat, d), carb : Rounded(total.carb, d)] :
               nutLast' = [servings |-> servings, raised |-> FALSE, called |-> TRUE,
                           out |-> out]
    /\ nutPrev' = nutLast
    /\ UNCHANGED ingredients_list
    /\ UNCHANGED notNutrition

\* the strings an ingredient can be: empty, blank, in the table, with a
\* quantity after the name, capitalised, unknown
Ingredients == {
    <<>>,
    <<" ">>,
    <<"e", "g", "g">>,
    <<" ", "R", "i", "c", "e", " ", "x">>,
    <<"s", "a", "l", "t">>,
    <<"B", "U", "T", "T", "E", "R", " ">>}

NutritionInit ==
    /\ ingredients_list \in UNION {[1 .. m -> Ingredients] : m \in 0 .. MaxIngredients}
    /\ nutLast = NoEstimate
    /\ nutPrev = NoEstimate
    /\ file = NoFile
    /\ last = NoCall
    /\ prev = NoCall
    /\ RaceIdle
    /\ ShopIdle
    /\ SessionIdle

NutritionNext == \E servings \in -1 .. MaxServings : estimate_nutrition(servings)

SpecNutrition == NutritionInit /\ [][NutritionNext]_vars

(***************************************************************************)
(* The Shopping List page (src/app.py:334-364, 418-422).                   *)
(***************************************************************************)
\* the unit keywords of line 349
UnitKeywords == {<<"c", "u", "p">>, <<"g">>, <<"k", "g">>, <<"m", "l">>, <<"p", "i", "e", "c", "e", "s">>, <<"p", "i", "n", "c", "h">>, <<"s", "l", "i", "c", "e">>, <<"t", "b", "s", "p">>, <<"t", "s", "p">>}

\* the ingredient words of line 355
IngredientWords == {<<"t", "o", "m", "a", "t", "o">>, <<"o", "n", "i", "o", "n">>, <<"g", "a", "r", "l", "i", "c">>, <<"c", "h", "i", "c", "k", "e", "n">>, <<"r", "i", "c", "e">>, <<"p", "a", "s", "t", "a">>, <<"c", "h", "e", "e", "s", "e">>, <<"e", "g", "g">>}

\* needle in hay, for strings
Contains(hay, needle) ==
    \E i \in 1 .. Len(hay) - Len(needle) + 1 :
        SubSeq(hay, i, i + Len(needle) - 1) = needle

\* the characters the regular expression takes for \w
Digits == <<"0", "1", "2", "3", "4", "5", "6", "7", "8", "9">>
IsWordChar(c) ==
    \/ \E i \in 1 .. Len(LowerCase) : LowerCase[i] = c \/ UpperCase[i] = c
    \/ \E i \in 1 .. Len(Digits) : Digits[i] = c
    \/ c = "_"

\* \band\b matches at position i of the line
AndAt(line, i) ==
    /\ i + 2 <= Len(line)
    /\ SubSeq(line, i, i + 2) = <<"a", "n", "d">>
    /\ (i = 1 \/ ~IsWordChar(line[i - 1]))
    /\ (i + 3 > Len(line) \/ ~IsWordChar(line[i + 3]))

\* re.split(r',|\band\b', line): the scan from position i, the piece under
\* way having begun at start
RECURSIVE ReSplitFrom(_, _, _, _)
ReSplitFrom(line, i, start, withAnd) ==
    IF i > Len(line) THEN <<SubSeq(line, start, Len(line))>>
    ELSE IF line[i] = ","
    THEN <<SubSeq(line, start, i - 1)>> \o ReSplitFrom(line, i + 1, i + 1, withAnd)
    ELSE IF withAnd /\ AndAt(line, i)
    THEN <<SubSeq(line, start, i - 1)>> \o ReSplitFrom(line, i + 3, i + 3, withAnd)
    ELSE ReSplitFrom(line, i + 1, start, withAnd)

\* [p.strip() for p in pieces if p.strip()]
RECURSIVE StripNonEmpty(_)
StripNonEmpty(pieces) ==
    IF pieces = <<>> THEN <<>>
    ELSE (IF Strip(Head(pieces)) # <<>> THEN <<Strip(Head(pieces))>> ELSE <<>>)
         \o StripNonEmpty(Tail(pieces))

\* re_split_commas(line)
\* (the same, had the pattern been the comma alone)
re_split_commas_only(line) == StripNonEmpty(ReSplitFrom(line, 1, 1, FALSE))
\* re_split_commas(line), pattern r',|\band\b'
re_split_commas(line) == StripNonEmpty(ReSplitFrom(line, 1, 1, TRUE))

\* text.splitlines(): the lines between line feeds, none after a final one
RECURSIVE SplitLinesFrom(_, _, _)
SplitLinesFrom(text, i, start) ==
    IF i > Len(text)
    THEN (IF start <= Len(text) THEN <<SubSeq(text, start, Len(text))>> ELSE <<>>)
    ELSE IF text[i] = "\n"
    THEN <<SubSeq(text, start, i - 1)>> \o SplitLinesFrom(text, i + 1, i + 1)
    ELSE SplitLinesFrom(text, i + 1, start)

SplitLines(text) == SplitLinesFrom(text, 1, 1)

\* items[p] = items.get(p, 0) + 1
AddItem(its, p) ==
    IF p \in DOMAIN its THEN [its EXCEPT ![p] = @ + 1] ELSE its @@ (p :> 1)

\* lines 352-354: the parts longer than 2 characters
RECURSIVE AddParts(_, _)
AddParts(its, parts) ==
    IF parts = <<>> THEN its
    ELSE AddParts(IF Len(Strip(Head(parts))) > 2 THEN AddItem(its, Strip(Head(parts))) ELSE its,
                  Tail(parts))

\* line 349: a unit keyword in the lowered line, or a comma in the line
HasUnitOrComma(line) ==
    \/ \E keyword \in UnitKeywords : Contains(Lower(line), keyword)
    \/ Contains(line, <<",">>)

\* line 355: an ingredient word in the lowered line
HasIngredientWord(line) ==
    \E word \in IngredientWords : Contains(Lower(line), word)

\* lines 349-356 for one line
AddLine(its, line) ==
    IF HasUnitOrComma(line) THEN AddParts(its, re_split_commas(line))
    ELSE IF HasIngredientWord(line) THEN AddItem(its, Strip(line))
    ELSE its

RECURSIVE AddLines(_, _)
AddLines(its, lines) ==
    IF lines = <<>> THEN its ELSE AddLines(AddLine(its, Head(lines)), Tail(lines))

\* rec.get("text","").splitlines()[0], where the text has a line
TitleOf(rec) == SplitLines(rec.text)[1]

\* lines 343-356: the loop over the loaded recipes
RECURSIVE AddRecipes(_, _, _)
AddRecipes(its, recipes, chosen) ==
    IF recipes = <<>> THEN its
    ELSE AddRecipes(IF TitleOf(Head(recipes)) \in chosen
                    THEN AddLines(its, SplitLines(Head(recipes).text))
                    ELSE its,
                    Tail(recipes), chosen)

\* line 340 raises IndexError for a saved recipe whose text has no line
PageRaises == \E i \in 1 .. Len(shopRecipes) : SplitLines(shopRecipes[i].text) = <<>>

\* the multiselect: a title of the options is selected or deselected
ShopSelect(i) ==
    /\ ~PageRaises
    /\ i \in 1 .. Len(shopRecipes)
    /\ selected' = (IF TitleOf(shopRecipes[i]) \in selected
                    THEN selected \ {TitleOf(shopRecipes[i])}
                    ELSE selected \cup {TitleOf(shopRecipes[i])})
    /\ items' = <<>>
    /\ shopState' = "options"
    /\ UNCHANGED shopRecipes
    /\ UNCHANGED notShop

\* the button "Build Shopping List"
BuildShoppingList ==
    /\ IF PageRaises
       THEN /\ items' = <<>>
            /\ shopState' = "raised"
       ELSE /\ items' = AddRecipes(<<>>, shopRecipes, selected)
            /\ shopState' = "built"
    /\ UNCHANGED <<shopRecipes, selected>>
    /\ UNCHANGED notShop

\* the texts of the saved recipes the page is shown with
ShopTexts == {
    \* an empty generation
    <<>>,
    \* the line of the claim, and a line that repeats one of its phrases
    <<"S", "o", "u", "p", "\n", "2", " ", "c", "u", "p", "s", " ", "t", "o", "m", "a", "t", "o", ",", " ", "1", " ", "o", "n", "i", "o", "n", "\n", "1", " ", "o", "n", "i", "o", "n">>,
    \* the word and between phrases, and inside words
    <<"R", "i", "c", "e", "\n", "1", " ", "c", "u", "p", " ", "r", "i", "c", "e", " ", "a", "n", "d", " ", "b", "e", "a", "n", "s", "\n", "s", "a", "n", "d", ",", " ", "c", "a", "n", "d", "y", "\n">>,
    \* the same title again; a line with and but no comma and no unit
    <<"S", "o", "u", "p", "\n", "s", "a", "l", "t", " ", "a", "n", "d", " ", "p", "e", "p", "p", "e", "r", "\n", "t", "o", "m", "a", "t", "o">>,
    \* a comma next to and, short fragments, a blank line, a capitalised unit
    <<"M", "i", "x", "\n", "1", " ", "e", "g", "g", ",", "a", "n", "d", " ", "2", " ", "c", "u", "p", "s", " ", "t", "o", "m", "a", "t", "o", "\n", "a", "b", ",", " ", "x", " ", ",", "\n", "\n", "2", " ", "C", "u", "p", "s", " ", "f", "l", "o", "u", "r", " ", "A", "n", "d", " ", "1", " ", "o", "n", "i", "o", "n">>}

ShopInit ==
    /\ shopRecipes \in UNION {[1 .. m -> [text : ShopTexts]] : m \in 1 .. MaxShopRecipes}
    /\ selected = {}
    /\ items = <<>>
    /\ shopState = "options"
    /\ file = NoFile
    /\ last = NoCall
    /\ prev = NoCall
    /\ RaceIdle
    /\ NutritionIdle
    /\ SessionIdle

ShopNext ==
    \/ \E i \in 1 .. MaxShopRecipes : ShopSelect(i)
    \/ BuildShoppingList

SpecShopping == ShopInit /\ [][ShopNext]_vars

(***************************************************************************)
(* The Streamlit session (src/app.py:155-409): every user action reruns    *)
(* the script, lines 160-178 first and then the branch of the page.        *)
(***************************************************************************)
\* the keys typed in Settings or found in GOOGLE_API_KEY: none, blank, one
\* the service rejects, one it accepts
Keys == {<<>>, <<" ">>, <<"b">>, <<"g">>}
ValidKey == <<"g">>

\* the days of line 288
Days == 1 .. 7

\* not st.session_state.api_key
\* (the same, had the page not tested the key)
KeyMissingNever(key) == FALSE
\* not api_key
KeyMissing(key) == key = <<>>

\* lines 168-178: "none" when there is no key to configure, "ok" when
\* genai.configure and the model constructors return, "failed" when they
\* raise and recipe_model = chat_model = None; the library decides for a
\* key that is not valid
ConfigOutcomes(key) ==
    IF key = <<>> THEN {"none"}
    ELSE IF key = ValidKey THEN {"ok"}
    ELSE {"ok", "failed"}

\* resp.text as the service sends it: a text of Texts, white space alone, or
\* a text with white space around it
ResponseTexts == Texts \cup {<<" ">>, <<"\n", "D", " ">>}

\* what generate_content gives for a call made with the key: an error
\* (network, quota, authentication), or for a valid key a text
Replies(key) ==
    {[ok |-> FALSE, text |-> <<>>]} \cup
    (IF key = ValidKey THEN {[ok |-> TRUE, text |-> t] : t \in ResponseTexts} ELSE {})

\* the service over the seven calls of the planner: up all along, or down
\* from some day on
Outages(key) ==
    {[d \in Days |-> d < from] : from \in (IF key = ValidKey THEN 1 .. 8 ELSE {1})}

Snapshot == [api_key |-> api_key, last_generated |-> last_generated,
             meal_plan |-> meal_plan, file |-> file]

Act(kind, error, called, config, raised, before) ==
    [kind |-> kind, error |-> error, called |-> called, config |-> config,
     raised |-> raised, before |-> before]

\* line 216: recipe_text = resp.text.strip()
recipe_text(reply) == Strip(reply.text)

\* line 233: the preview takes splitlines()[0] of the text, IndexError when
\* a recipe is there and its text has no line
\* (the same, had the preview not indexed the lines)
PreviewRaisesNever(r) == FALSE
\* r.get('text').splitlines()[0]
PreviewRaises(r) == r.some /\ SplitLines(r.text) = <<>>

\* Discover, "Generate Recipe" (lines 192-227), then the preview
DiscoverGenerate(blank, config, reply) ==
    /\ config \in ConfigOutcomes(api_key)
    /\ reply \in Replies(api_key)
    /\ IF blank
       THEN /\ act' = Act("discover", "warning", FALSE, config,
                          PreviewRaises(last_generated), NoSnapshot)
            /\ UNCHANGED last_generated
       ELSE IF KeyMissing(api_key)
       THEN /\ act' = Act("discover", "no_key", FALSE, config,
                          PreviewRaises(last_generated), NoSnapshot)
            /\ UNCHANGED last_generated
       ELSE IF config # "ok"
       THEN \* recipe_model is None or unbound: the except of line 226
            /\ act' = Act("discover", "api_error", FALSE, config,
                          PreviewRaises(last_generated), Snapshot)
            /\ UNCHANGED last_generated
       ELSE IF ~reply.ok
       THEN /\ act' = Act("discover", "api_error", TRUE, config,
                          PreviewRaises(last_generated), Snapshot)
            /\ UNCHANGED last_generated
       ELSE /\ last_generated' = [some |-> TRUE, text |-> recipe_text(reply)]
            /\ act' = Act("discover", "none", TRUE, config,
                          PreviewRaises([some |-> TRUE, text |-> recipe_text(reply)]),
                          NoSnapshot)
    /\ UNCHANGED <<api_key, meal_plan, file>>
    /\ UNCHANGED notSession

\* Discover, "Save Recipe" (lines 231-238): the button is there only when
\* the preview above it has rendered
DiscoverSave(config) ==
    LET loaded == load_saved_recipes(file) IN
    /\ config \in ConfigOutcomes(api_key)
    /\ last_generated.some
    /\ ~PreviewRaises(last_generated)
    /\ Len(loaded.val) < MaxSaved
    /\ IF loaded.ok
       THEN /\ file' = save_all_recipes(Insert0(loaded.val, [text |-> last_generated.text]))
            /\ act' = Act("save", "none", FALSE, config, FALSE, NoSnapshot)
       ELSE /\ file' = file
            /\ act' = Act("save", "parse_error", FALSE, config, TRUE, Snapshot)
    /\ UNCHANGED <<api_key, last_generated, meal_plan>>
    /\ UNCHANGED notSession

\* My Recipes (lines 248-277): the page loads the list
MyRecipesView(config) ==
    /\ config \in ConfigOutcomes(api_key)
    /\ IF load_saved_recipes(file).ok
       THEN act' = Act("view", "none", FALSE, config, FALSE, NoSnapshot)
       ELSE act' = Act("view", "parse_error", FALSE, config, TRUE, Snapshot)
    /\ UNCHANGED <<api_key, last_generated, meal_plan, file>>
    /\ UNCHANGED notSession

\* My Recipes, "Delete" of the recipe shown at idx (lines 275-277)
MyRecipesDelete(config, idx) ==
    LET loaded == load_saved_recipes(file) IN
    /\ config \in ConfigOutcomes(api_key)
    /\ loaded.ok
    /\ idx \in 0 .. Len(loaded.val) - 1
    /\ file' = (IF InRange(idx, loaded.val)
                THEN save_all_recipes(PopAt(loaded.val, idx))
                ELSE file)
    /\ act' = Act("delete", "none", FALSE, config, FALSE, NoSnapshot)
    /\ UNCHANGED <<api_key, last_generated, meal_plan>>
    /\ UNCHANGED notSession

\* Meal Planner, "Generate 7-day Meal Plan" (lines 284-299)
PlannerGenerate(config, up) ==
    /\ config \in ConfigOutcomes(api_key)
    /\ up \in Outages(api_key)
    /\ IF KeyMissing(api_key)
       THEN /\ act' = Act("planner", "no_key", FALSE, config, FALSE, NoSnapshot)
            /\ UNCHANGED meal_plan
       ELSE LET plan == [d \in Days |-> IF config = "ok" /\ up[d] THEN "text" ELSE "Error"] IN
            /\ meal_plan' = [some |-> TRUE, days |-> plan]
            /\ act' = Act("planner",
                          IF \E d \in Days : plan[d] = "Error" THEN "api_error" ELSE "none",
                          config = "ok", config, FALSE,
                          IF \E d \in Days : plan[d] = "Error" THEN Snapshot ELSE NoSnapshot)
    /\ UNCHANGED <<api_key, last_generated, file>>
    /\ UNCHANGED notSession

\* Chat, "Send" (lines 367-384)
ChatSend(blank, config, reply) ==
    /\ config \in ConfigOutcomes(api_key)
    /\ reply \in Replies(api_key)
    /\ act' = IF KeyMissing(api_key)
              THEN Act("chat", "no_key", FALSE, config, FALSE, NoSnapshot)
              ELSE IF blank
              THEN Act("chat", "warning", FALSE, config, FALSE, NoSnapshot)
              ELSE IF config # "ok"
              THEN Act("chat", "api_error", FALSE, config, FALSE, Snapshot)
              ELSE IF ~reply.ok
              THEN Act("chat", "api_error", TRUE, config, FALSE, Snapshot)
              ELSE Act("chat", "none", TRUE, config, FALSE, NoSnapshot)
    /\ UNCHANGED <<api_key, last_generated, meal_plan, file>>
    /\ UNCHANGED notSession

\* Settings, "Save API Key" (lines 390-400): the key is stored, then
\* configured
SaveApiKey(key, config) ==
    /\ config \in ConfigOutcomes(Strip(key))
    /\ api_key' = Strip(key)
    /\ act' = IF config = "ok"
              THEN Act("save_key", "none", FALSE, config, FALSE, NoSnapshot)
              ELSE Act("save_key", "config_error", FALSE, config, FALSE, Snapshot)
    /\ UNCHANGED <<last_generated, meal_plan, file>>
    /\ UNCHANGED notSession

\* Settings, "Clear saved recipes (delete file)" (lines 404-409)
ClearSaved(config) ==
    /\ config \in ConfigOutcomes(api_key)
    /\ file' = NoFile
    /\ act' = Act("clear", "none", FALSE, config, FALSE, NoSnapshot)
    /\ UNCHANGED <<api_key, last_generated, meal_plan>>
    /\ UNCHANGED notSession

\* the session starts: the key of the environment, nothing generated, no
\* plan; the document as an earlier run left it: absent, a list, or cut short
\* by a save that was interrupted
SessionInit ==
    /\ api_key \in Keys
    /\ last_generated = NoneGenerated
    /\ meal_plan = NoPlan
    /\ act = NoAct
    /\ file \in {NoFile, Dumps(<<>>), <<>>,
                 SubSeq(Dumps(<<[text |-> <<"D">>]>>), 1, ChunkLen)}
    /\ last = NoCall
    /\ prev = NoCall
    /\ RaceIdle
    /\ NutritionIdle
    /\ ShopIdle

Configs == {"none", "ok", "failed"}

SessionNext ==
    \/ \E blank \in BOOLEAN, config \in Configs, reply \in Replies(ValidKey) :
          DiscoverGenerate(blank, config, reply)
    \/ \E config \in Configs : DiscoverSave(config)
    \/ \E config \in Configs : MyRecipesView(config)
    \/ \E config \in Configs, idx \in 0 .. MaxSaved : MyRecipesDelete(config, idx)
    \/ \E config \in Configs, up \in Outages(ValidKey) : PlannerGenerate(config, up)
    \/ \E blank \in BOOLEAN, config \in Configs, reply \in Replies(ValidKey) :
          ChatSend(blank, config, reply)
    \/ \E key \in Keys, config \in Configs : SaveApiKey(key, config)
    \/ \E config \in Configs : ClearSaved(config)

SpecSession == SessionInit /\ [][SessionNext]_vars

Init == StoreInit /\ RaceIdle /\ NutritionIdle /\ ShopIdle /\ SessionIdle
Next == StoreNext
Spec == Init /\ [][Next]_vars

(***************************************************************************)
(* Claims about the store, one caller at a time.                           *)
(***************************************************************************)
\* the list a load_saved_recipes() that runs now returns
StoredNow == load_saved_recipes(file)
\* the list that was stored before the last call
StoredBefore(c) == load_saved_recipes(c.before)

\* C1: add_recipe(r) followed by load_saved_recipes() returns r followed by
\* the sequence stored before the add, in its order, duplicates kept.
C1_AddThenLoad ==
    (last.op = "add" /\ StoredBefore(last).ok) =>
        /\ StoredNow.ok
        /\ Len(StoredNow.val) = Len(StoredBefore(last).val) + 1
        /\ StoredNow.val[1] = last.rec
        /\ \A j \in 1 .. Len(StoredBefore(last).val) :
               StoredNow.val[j + 1] = StoredBefore(last).val[j]

\* an add of a record already stored, onto a list of two records
C1_Witness ==
    /\ last.op = "add"
    /\ Len(StoredBefore(last).val) = 2
    /\ StoredBefore(last).val[2] = last.rec
    /\ StoredBefore(last).val[1] # last.rec
    /\ Len(StoredNow.val) = 3

\* C2: delete_recipe(i) with 0 <= i < len followed by load_saved_recipes()
\* returns the stored sequence without its element i, the others in their
\* order; delete_recipe(0) right after add_recipe(r) restores the sequence
\* stored before the add.
C2_DeleteThenLoad ==
    /\ (/\ last.op = "delete"
        /\ StoredBefore(last).ok
        /\ 0 <= last.arg
        /\ last.arg < Len(StoredBefore(last).val)) =>
           /\ StoredNow.ok
           /\ Len(StoredNow.val) = Len(StoredBefore(last).val) - 1
           /\ \A j \in 1 .. Len(StoredNow.val) :
                  StoredNow.val[j] =
                      StoredBefore(last).val[IF j <= last.arg THEN j ELSE j + 1]
    /\ (/\ last.op = "delete"
        /\ last.arg = 0
        /\ prev.op = "add"
        /\ StoredBefore(prev).ok) =>
           StoredNow = StoredBefore(prev)

\* the middle one of three records, its neighbours different, is deleted
C2_Witness ==
    /\ last.op = "delete"
    /\ last.arg = 1
    /\ Len(StoredBefore(last).val) = 3
    /\ StoredBefore(last).val[1] # StoredBefore(last).val[3]
    /\ StoredNow.val = <<StoredBefore(last).val[1], StoredBefore(last).val[3]>>

\* C3: delete_recipe(index) with index >= len or index < 0 raises nothing,
\* writes nothing and leaves the stored sequence as it was.
C3_DeleteOutOfRange ==
    (/\ last.op = "delete"
     /\ StoredBefore(last).ok
     /\ (last.arg < 0 \/ last.arg >= Len(StoredBefore(last).val))) =>
        /\ ~last.raised
        /\ ~last.wrote
        /\ file = last.before
        /\ StoredNow = StoredBefore(last)

\* delete_recipe(-1) on a list of two records
C3_Witness ==
    /\ last.op = "delete"
    /\ last.arg = -1
    /\ Len(StoredBefore(last).val) = 2
    /\ Len(StoredNow.val) = 2

(***************************************************************************)
(* Claims about the store under two sessions.                              *)
(***************************************************************************)
\* C4: a load_saved_recipes() at any point relative to a save, an
\* interrupted one included, reads a complete list that was stored or
\* handed to save_all_recipes: never a truncated or mixed document.
C4_NoPartialRead ==
    \A s \in Sessions :
        sess[s].pc # "idle" =>
            /\ sess[s].loaded.ok
            /\ sess[s].loaded.val \in versions

\* the session whose save ended last
LastWriter == closed[Len(closed)]

\* C10: add_recipe holds no lock between its load and its save, and the
\* last writer wins: once two adds whose saves did not overlap have both
\* finished, the document is the later saver's record followed by the list
\* that session had loaded, whatever the other session saved in between.
C10_LastWriterWins ==
    (/\ \A s \in Sessions : sess[s].op = "add" /\ sess[s].pc = "done"
     /\ ~overlap) =>
        /\ Len(closed) = 2
        /\ StoredNow = Parsed(<<sess[LastWriter].rec>> \o sess[LastWriter].loaded.val)

\* the lost update: both adds have finished, each had loaded the same list,
\* and the document holds the later saver's record and not the other's
C10_Witness ==
    /\ \A s \in Sessions : sess[s].op = "add" /\ sess[s].pc = "done"
    /\ ~overlap
    /\ sess[1].loaded = sess[2].loaded
    /\ sess[1].rec # sess[2].rec
    /\ StoredNow.ok
    /\ Len(StoredNow.val) = Len(sess[1].loaded.val) + 1
    /\ \E s \in Sessions :
          \A j \in 1 .. Len(StoredNow.val) : StoredNow.val[j] # sess[s].rec

(***************************************************************************)
(* Claims about the nutrition estimator.                                   *)
(***************************************************************************)
\* C5: estimate_nutrition never fails: for every list of ingredient strings,
\* empty and blank ones included, and every servings, it returns the four
\* values and raises nothing.
C5_NeverFails == nutLast.called => ~nutLast.raised

Abs(x) == IF x < 0 THEN -x ELSE x

\* the values of a call that returned are not negative, are within 0.1 of
\* half those of the call before it when that one had half the servings, and
\* are zero for the empty list
ValuesOf(c, b) ==
    /\ \A f \in Fields : c.out[f] >= 0
    /\ (b.called /\ ~b.raised /\ b.servings >= 1 /\ c.servings = 2 * b.servings) =>
           \A f \in Fields : Abs(2 * c.out[f] - b.out[f]) <= 2
    /\ ingredients_list = <<>> => c.out = ZeroTotals

\* C6: for every ingredient list and every servings >= 1 the four values
\* estimate_nutrition returns are not negative, those for 2*s servings are
\* within 0.1 of half those for s servings, and the empty list gives zeros.
C6_NonNegativeAndHalving ==
    (nutLast.called /\ nutLast.servings >= 1) =>
        /\ ~nutLast.raised
        /\ ValuesOf(nutLast, nutPrev)

\* the same for the calls that return: every string of the list has a word
ValuesWhenReturned ==
    (nutLast.called /\ nutLast.servings >= 1 /\ ~nutLast.raised) =>
        ValuesOf(nutLast, nutPrev)

\* a call with servings <= 0 divides by 1
ServingsClamped ==
    (nutLast.called /\ ~nutLast.raised /\ nutLast.servings < 1) =>
        nutLast.out = Totals(ingredients_list)

(***************************************************************************)
(* Claims about the Shopping List page.                                    *)
(***************************************************************************)
\* the lines the build goes through, as <<r, n, line>>: line n of recipe
\* r, its title selected
LinesOfRecipe(r) ==
    LET lines == SplitLines(shopRecipes[r].text) IN
    IF lines # <<>> /\ lines[1] \in selected
    THEN {<<r, n, lines[n]>> : n \in 1 .. Len(lines)}
    ELSE {}

ProcessedLines == UNION {LinesOfRecipe(r) : r \in 1 .. Len(shopRecipes)}

\* position k of the line is part of a comma or of the word "and"
InSeparator(line, k) ==
    \/ line[k] = ","
    \/ \E i \in {k - 2, k - 1, k} : i >= 1 /\ AndAt(line, i)

\* positions i..j of the line are a fragment: free of separators, and
\* bounded by separators or the ends of the line
IsFragment(line, i, j) ==
    /\ 1 <= i /\ i <= j /\ j <= Len(line)
    /\ \A k \in i .. j : ~InSeparator(line, k)
    /\ (i = 1 \/ InSeparator(line, i - 1))
    /\ (j = Len(line) \/ InSeparator(line, j + 1))

FragmentsOf(line) ==
    {ij \in (1 .. Len(line)) \X (1 .. Len(line)) : IsFragment(line, ij[1], ij[2])}

\* the trimmed fragments of the processed lines that have a comma or a unit
\* keyword, as <<r, n, i, j, phrase>>
SplitPhrases ==
    UNION {{<<x[1], x[2], ij[1], ij[2], Strip(SubSeq(x[3], ij[1], ij[2]))>> :
               ij \in FragmentsOf(x[3])} :
           x \in {y \in ProcessedLines : HasUnitOrComma(y[3])}}

\* the other processed lines that have an ingredient word, as <<r, n, phrase>>
WholeLinePhrases ==
    {<<x[1], x[2], Strip(x[3])>> :
        x \in {y \in ProcessedLines : ~HasUnitOrComma(y[3]) /\ HasIngredientWord(y[3])}}

ClaimLine == <<"2", " ", "c", "u", "p", "s", " ", "t", "o", "m", "a", "t", "o", ",", " ", "1", " ", "o", "n", "i", "o", "n">>
ClaimPhrase1 == <<"2", " ", "c", "u", "p", "s", " ", "t", "o", "m", "a", "t", "o">>
ClaimPhrase2 == <<"1", " ", "o", "n", "i", "o", "n">>

C8_FailedActionLeavesState ==
    act.error \in {"api_error", "config_error", "parse_error"} =>
        Snapshot = act.before

\* the actions that ask the service for a text, past their check of the form
GenerationAct ==
    act.kind \in {"discover", "planner", "chat"} /\ act.error # "warning"

StoredRecords ==
    LET loaded == load_saved_recipes(file) IN
    IF loaded.ok THEN {loaded.val[i] : i \in 1 .. Len(loaded.val)} ELSE {}

\* C11: after any sequence of user actions (generate, save recipe, delete,
\* clear) every record of the persisted document has a non-empty text: the
\* one action that stores a record, Discover's Save Recipe, stores the text
\* of last_generated and is not run while that text is empty.
C11_StoredTextNonEmpty ==
    /\ \A r \in StoredRecords : r.text # <<>>
    /\ act.kind = "save" => (last_generated.some /\ last_generated.text # <<>>)

\* a recipe is stored, and the generation after it came back empty: the
\* preview raised and the document kept its record
C11_Witness ==
    /\ StoredRecords # {}
    /\ last_generated.some
    /\ last_generated.text = <<>>
    /\ act.kind = "discover"
    /\ act.raised

====
